---- MODULE Spec2Model ----
(***************************************************************************)
(* Library lifecycle (core/src/library/manager.rs) and shallow indexer     *)
(* (core/src/location/indexer/shallow.rs) of spacedrive.                   *)
(*                                                                         *)
(* Spec      : the LibraryManager with concurrent callers, the libraries   *)
(*             directory and process termination / restart.                *)
(* LiveSpec  : Spec with weak fairness on the steps of calls in progress.  *)
(* ScanSpec  : the shallow scan of one location against its path records.  *)
(* ActorSpec : the orphan-reclamation actor and the callers of invoke().   *)
(* SyncSpec  : the sync forwarding task that load spawns, and its channel. *)
(* LoadSpec  : the node record that load upserts in a library's database.  *)
(*                                                                         *)
(* Granularity: one action per stretch of code between suspension points   *)
(* at which another task can observe the registry or the directory.        *)
(***************************************************************************)
EXTENDS Integers, Sequences, FiniteSets, TLC

(***************************************************************************)
(* Bounds                                                                  *)
(***************************************************************************)
\* cap on the number of create, edit and delete calls made in one run
MaxCalls == 3

Procs == {"t1", "t2"}
NoProc == "none"
Ids == {1, 2}

(***************************************************************************)
(* Strings are sequences of one-character strings.                         *)
(***************************************************************************)
WhitespaceChars == {" ", "\t", "\n"}
NoConfig == [name |-> <<>>, description |-> <<>>]
\* the configs callers pass to create: both kinds of blank name, and a
\* config with a proper name
Configs ==
    { [name |-> <<>>, description |-> <<>>],
      [name |-> <<" ", "\t">>, description |-> <<"d">>],
      [name |-> <<"P">>, description |-> <<"d">>] }
\* Option<String> arguments of edit: <<>> is None, <<s>> is Some(s)
NameOpts == { <<>>, << <<>> >>, << <<"P">> >> }
DescOpts == { <<>>, << <<>> >> }

\* config.name.is_empty() || config.name.chars().all(|x| x.is_whitespace())
IsBlankName_EmptyOnly(name) == Len(name) = 0
IsBlankName(name) ==
    Len(name) = 0 \/ \A i \in 1..Len(name) : name[i] \in WhitespaceChars

(***************************************************************************)
(* Uuid formatting and parsing, scaled to two hex digits.                  *)
(***************************************************************************)
HexChars == <<"0","1","2","3","4","5","6","7","8","9","a","b","c","d","e","f">>
UpperHex == <<"0","1","2","3","4","5","6","7","8","9","A","B","C","D","E","F">>
ParseError == -1

\* format!("{id}") : lower-case hex of fixed width
FormatUuid(id) == <<HexChars[(id \div 16) + 1], HexChars[(id % 16) + 1]>>

IsHex(c) == \E i \in 1..16 : HexChars[i] = c \/ UpperHex[i] = c
HexVal(c) == (CHOOSE i \in 1..16 : HexChars[i] = c \/ UpperHex[i] = c) - 1

\* Uuid::from_str(stem) : Ok(id) or Err
ParseUuid(stem) ==
    IF Len(stem) = 2 /\ IsHex(stem[1]) /\ IsHex(stem[2])
    THEN 16 * HexVal(stem[1]) + HexVal(stem[2])
    ELSE ParseError

(***************************************************************************)
(* The libraries directory                                                 *)
(***************************************************************************)
Entry(stem, ext, isFile) == [stem |-> stem, ext |-> ext, file |-> isFile]
\* libraries_dir.join(format!("{id}.sdlibrary")) and ...join(format!("{id}.db"))
ConfigPath(id) == Entry(FormatUuid(id), "sdlibrary", TRUE)
DbPath(id) == Entry(FormatUuid(id), "db", TRUE)
\* entry_path.with_extension("db")
WithExtensionDb(e) == Entry(e.stem, "db", TRUE)

\* entries that no library manager wrote: a config-like file with a malformed
\* stem, a directory carrying the config extension, a file of another kind
ForeignEntries ==
    { Entry(<<"z">>, "sdlibrary", TRUE),
      Entry(<<"0", "9">>, "sdlibrary", FALSE),
      Entry(FormatUuid(10), "txt", TRUE) }

VARIABLES
    mgr,          \* "none" | "up" | "failed": is there a constructed LibraryManager
    dir,          \* entries of libraries_dir
    cfgData,      \* [Ids -> config]: content of each id's config file
    libraries,    \* the registry: sequence of [id, config]
    lockWriter,   \* holder of the registry's write guard, or NoProc
    pc,           \* [Procs -> position of the caller inside its call]
    args,         \* [Procs -> arguments of the call in progress]
    signal,       \* the invalidation emitted by the step just taken, or NoSignal
    last,         \* the return made by the step just taken, or NoReturn
    calls,        \* history: number of create, edit and delete calls made
    partial,      \* history: ids a delete left with exactly one file removed
    live,         \* history: wrapped configs returned by a successful create,
                  \*          not edited or deleted since
    resumed,      \* ids of the libraries the step just taken asked the job
                  \*          engine to resume the jobs of
    resumeFailed, \* those of them whose resume_jobs returned an error
    attempt       \* history, [Ids -> "none" | "trying" | "failed"]: how the
                  \*          latest create_with_uuid of an id that was not
                  \*          loadable when the call began has gone

mvars == <<mgr, dir, cfgData, libraries, lockWriter, pc, args, signal, last,
           calls, partial, live, resumed, resumeFailed, attempt>>

(***************************************************************************)
(* Values                                                                  *)
(***************************************************************************)
Library(id, config) == [id |-> id, config |-> config]
\* LibraryConfigWrapped { uuid, config }
Wrapped(id, config) == [uuid |-> id, config |-> config]

NoSignal == "none"
LibraryList == "library.list"

NoArgs == [id |-> 0, config |-> NoConfig]
NoReturn ==
    [proc |-> NoProc, op |-> "none", status |-> "none",
     uuid |-> 0, config |-> NoConfig, list |-> <<>>, detail |-> <<>>,
     retry |-> FALSE]
Return(p, op, status, id, config, list) ==
    [proc |-> p, op |-> op, status |-> status,
     uuid |-> id, config |-> config, list |-> list, detail |-> <<>>,
     retry |-> FALSE]

Range(s) == {s[i] : i \in 1..Len(s)}
RegisteredIds(libs) == {libs[i].id : i \in 1..Len(libs)}
\* libraries.iter().find(|lib| lib.id == id): index of the first match
FindIndex(libs, id) ==
    CHOOSE i \in 1..Len(libs) :
        libs[i].id = id /\ \A j \in 1..(i - 1) : libs[j].id # id
\* libraries.retain(|l| l.id != id)
Retain(libs, id) == SelectSeq(libs, LAMBDA l : l.id # id)

\* all orders in which read_dir may yield the members of S
Orders(S) ==
    {s \in [1..Cardinality(S) -> S] : \A i, j \in 1..Cardinality(S) : s[i] = s[j] => i = j}

\* room for one more create, edit or delete call (bound of the model)
Budget == calls < MaxCalls

\* a step that returns nothing and emits nothing
Quiet == signal' = NoSignal /\ last' = NoReturn

(***************************************************************************)
(* LibraryManager::new                                                     *)
(***************************************************************************)
\* what the scan does with one directory entry
\* (the "fail" outcome is line 186: an I/O error other than NotFound)
ScanEntry_MissingDbFatal(e, d) ==
    IF ~(e.file /\ e.ext = "sdlibrary") THEN "ignore"
    ELSE IF ParseUuid(e.stem) = ParseError THEN "skip"
    ELSE IF ~\E f \in d : f.stem = e.stem /\ f.ext = "db" THEN "fail"
    ELSE "load"
ScanEntry_LoadWithoutDb(e, d) ==
    IF ~(e.file /\ e.ext = "sdlibrary") THEN "ignore"
    ELSE IF ParseUuid(e.stem) = ParseError THEN "skip"
    ELSE "load"
ScanEntry(e, d) ==
    IF ~(e.file /\ e.ext = "sdlibrary") THEN "ignore"
    ELSE IF ParseUuid(e.stem) = ParseError THEN "skip"
    ELSE IF ~\E f \in d : f.stem = e.stem /\ f.ext = "db" THEN "skip"
    ELSE "load"

Loadable(d) == {e \in d : ScanEntry(e, d) = "load"}

MInit ==
    /\ mgr = "none"
    /\ dir = ForeignEntries
    /\ cfgData = [i \in Ids |-> NoConfig]
    /\ libraries = <<>>
    /\ lockWriter = NoProc
    /\ pc = [p \in Procs |-> "idle"]
    /\ args = [p \in Procs |-> NoArgs]
    /\ signal = NoSignal
    /\ last = NoReturn
    /\ calls = 0
    /\ partial = {}
    /\ live = {}
    /\ attempt = [i \in Ids |-> "none"]
    /\ resumed = {}
    /\ resumeFailed = {}

\* the possible results of load(id, db_path, config, ctx): its status,
\* whether the database file exists afterwards and whether it reached its
\* request to resume the library's jobs. Location-watcher registration can
\* only fail for a database that already holds locations.
\* resume is how the request to resume the jobs ended: "Ok", "Failed", or
\* "none" when load did not make it.
LoadOutcomes_ResumeBeforeLocations(dbExisted) ==
    { [status |-> "Ok", db |-> TRUE, jobs |-> TRUE, resume |-> "Ok"],
      [status |-> "Ok", db |-> TRUE, jobs |-> TRUE, resume |-> "Failed"],
      [status |-> "MigrationError", db |-> FALSE, jobs |-> FALSE, resume |-> "none"],
      [status |-> "MigrationError", db |-> TRUE, jobs |-> FALSE, resume |-> "none"] }
    \cup (IF dbExisted
          THEN { [status |-> "LocationWatcher", db |-> TRUE, jobs |-> TRUE,
                  resume |-> "Ok"] }
          ELSE {})
LoadOutcomes_ResumeFailureFatal(dbExisted) ==
    { [status |-> "Ok", db |-> TRUE, jobs |-> TRUE, resume |-> "Ok"],
      [status |-> "JobManager", db |-> TRUE, jobs |-> TRUE, resume |-> "Failed"],
      [status |-> "MigrationError", db |-> FALSE, jobs |-> FALSE, resume |-> "none"],
      [status |-> "MigrationError", db |-> TRUE, jobs |-> FALSE, resume |-> "none"] }
    \cup (IF dbExisted
          THEN { [status |-> "LocationWatcher", db |-> TRUE, jobs |-> FALSE,
                  resume |-> "none"] }
          ELSE {})
LoadOutcomes(dbExisted) ==
    { [status |-> "Ok", db |-> TRUE, jobs |-> TRUE, resume |-> "Ok"],
      [status |-> "Ok", db |-> TRUE, jobs |-> TRUE, resume |-> "Failed"],
      [status |-> "MigrationError", db |-> FALSE, jobs |-> FALSE, resume |-> "none"],
      [status |-> "MigrationError", db |-> TRUE, jobs |-> FALSE, resume |-> "none"] }
    \cup (IF dbExisted
          THEN { [status |-> "LocationWatcher", db |-> TRUE, jobs |-> FALSE,
                  resume |-> "none"] }
          ELSE {})

\* the libraries among those of entries es whose load can return Ok with
\* its resume_jobs failed
ResumeFailable(es, d) ==
    {ParseUuid(e.stem) : e \in
        {x \in es : \E o \in LoadOutcomes(WithExtensionDb(x) \in d) :
                        o.status = "Ok" /\ o.resume = "Failed"}}

\* the process starts (or restarts) and builds its LibraryManager; a load
\* of one of the libraries found may fail, which fails the construction
Initialize ==
    /\ mgr # "up"
    /\ signal' = NoSignal
    /\ UNCHANGED <<cfgData, lockWriter, pc, args, calls, partial, live, attempt>>
    /\ IF \E e \in dir : ScanEntry(e, dir) = "fail"
       THEN /\ mgr' = "failed"
            /\ last' = Return(NoProc, "initialize", "FileIO", 0, NoConfig, <<>>)
            /\ resumed' = {} /\ resumeFailed' = {}
            /\ UNCHANGED <<dir, libraries>>
       ELSE \E order \in Orders(Loadable(dir)), loadOk \in BOOLEAN :
            /\ loadOk \/ Loadable(dir) # {}
            /\ IF loadOk
               THEN /\ mgr' = "up"
                    /\ libraries' =
                         [i \in 1..Len(order) |->
                            Library(ParseUuid(order[i].stem),
                                    cfgData[ParseUuid(order[i].stem)])]
                    /\ last' = Return(NoProc, "initialize", "Ok", 0, NoConfig, <<>>)
                    /\ resumed' = {ParseUuid(order[i].stem) : i \in 1..Len(order)}
                    /\ resumeFailed' \in SUBSET ResumeFailable(Loadable(dir), dir)
               ELSE \* the i-th load fails, with error o.status
                    \E i \in 1..Len(order) :
                    \E o \in {x \in LoadOutcomes(WithExtensionDb(order[i]) \in dir) :
                                x.status # "Ok"} :
                    /\ mgr' = "failed"
                    /\ libraries' = <<>>
                    /\ last' = [Return(NoProc, "initialize", "LoadError",
                                       ParseUuid(order[i].stem), NoConfig, <<>>)
                                   EXCEPT !.detail = <<o.status>>]
                    /\ resumed' = {ParseUuid(order[j].stem) : j \in 1..(i - 1)}
                                     \cup (IF o.jobs THEN {ParseUuid(order[i].stem)}
                                           ELSE {})
                    /\ \E before \in SUBSET ResumeFailable(
                                        {order[j] : j \in 1..(i - 1)}, dir) :
                         resumeFailed' =
                             before \cup (IF o.resume = "Failed"
                                          THEN {ParseUuid(order[i].stem)} ELSE {})
            \* load of a library with no database file creates the file
            /\ dir' = dir \cup {WithExtensionDb(e) : e \in Loadable(dir)}

\* the process terminates at an arbitrary point; memory is lost, files stay
Crash ==
    /\ resumed' = {} /\ resumeFailed' = {}
    /\ mgr = "up"
    /\ mgr' = "none"
    /\ libraries' = <<>>
    /\ lockWriter' = NoProc
    /\ pc' = [p \in Procs |-> "idle"]
    /\ args' = [p \in Procs |-> NoArgs]
    /\ partial' = {}
    /\ live' = {}
    /\ attempt' = [i \in Ids |-> IF attempt[i] = "trying" THEN "none" ELSE attempt[i]]
    /\ Quiet
    /\ UNCHANGED <<dir, cfgData, calls>>

(***************************************************************************)
(* LibraryManager::create / create_with_uuid                               *)
(***************************************************************************)
\* a call returns to its caller
Finish(p, ret) ==
    /\ pc' = [pc EXCEPT ![p] = "idle"]
    /\ args' = [args EXCEPT ![p] = NoArgs]
    /\ last' = ret

\* Uuid::new_v4(): an id nothing in the system carries
FreshIds ==
    {id \in Ids :
        /\ id \notin RegisteredIds(libraries)
        /\ \A e \in dir : ParseUuid(e.stem) # id
        /\ \A p \in Procs : args[p].id # id}

\* id is neither registered nor loadable from the directory, and no other
\* caller is inside a create of it
NotLoadable(p, id) ==
    /\ id \notin RegisteredIds(libraries)
    /\ ~(ConfigPath(id) \in dir /\ DbPath(id) \in dir)
    /\ \A q \in Procs \ {p} : args[q].id # id
\* the create of id in progress returns an error
AttemptFailed(id) ==
    [attempt EXCEPT ![id] = IF @ = "trying" THEN "failed" ELSE @]

\* lines 219-228: validation and LibraryConfig::save, up to the first await
CreateWithUuid_LockedThroughLoad(p, id, config) ==
    /\ resumed' = {} /\ resumeFailed' = {}
    /\ mgr = "up" /\ pc[p] = "idle" /\ Budget
    /\ calls' = calls + 1
    /\ signal' = NoSignal
    /\ lockWriter = NoProc
    /\ lockWriter' = p
    /\ UNCHANGED <<mgr, libraries, partial, live>>
    /\ IF IsBlankName(config.name)
       THEN /\ Finish(p, Return(p, "create", "InvalidConfig", 0, NoConfig, <<>>))
            /\ UNCHANGED <<dir, cfgData, attempt>>
       ELSE \E saveOk \in BOOLEAN :
            IF saveOk
            THEN /\ dir' = dir \cup {ConfigPath(id)}
                 /\ cfgData' = [cfgData EXCEPT ![id] = config]
                 /\ pc' = [pc EXCEPT ![p] = "c_load"]
                 /\ args' = [args EXCEPT ![p] = [id |-> id, config |-> config]]
                 /\ last' = NoReturn
                 /\ attempt' = [attempt EXCEPT ![id] =
                                   IF NotLoadable(p, id) THEN "trying" ELSE "none"]
            ELSE /\ Finish(p, Return(p, "create", "FileIO", 0, NoConfig, <<>>))
                 /\ attempt' = [attempt EXCEPT ![id] =
                                   IF NotLoadable(p, id) THEN "failed" ELSE @]
                 /\ UNCHANGED <<dir, cfgData>>
CreateWithUuid(p, id, config) ==
    /\ resumed' = {} /\ resumeFailed' = {}
    /\ mgr = "up" /\ pc[p] = "idle" /\ Budget
    /\ calls' = calls + 1
    /\ signal' = NoSignal
    /\ UNCHANGED <<mgr, libraries, lockWriter, partial, live>>
    /\ IF IsBlankName(config.name)
       THEN /\ Finish(p, Return(p, "create", "InvalidConfig", 0, NoConfig, <<>>))
            /\ UNCHANGED <<dir, cfgData, attempt>>
       ELSE \E saveOk \in BOOLEAN :
            IF saveOk
            THEN /\ dir' = dir \cup {ConfigPath(id)}
                 /\ cfgData' = [cfgData EXCEPT ![id] = config]
                 /\ pc' = [pc EXCEPT ![p] = "c_load"]
                 /\ args' = [args EXCEPT ![p] = [id |-> id, config |-> config]]
                 /\ last' = NoReturn
                 /\ attempt' = [attempt EXCEPT ![id] =
                                   IF NotLoadable(p, id) THEN "trying" ELSE "none"]
            ELSE /\ Finish(p, Return(p, "create", "FileIO", 0, NoConfig, <<>>))
                 /\ attempt' = [attempt EXCEPT ![id] =
                                   IF NotLoadable(p, id) THEN "failed" ELSE @]
                 /\ UNCHANGED <<dir, cfgData>>

\* line 211: create(config) = create_with_uuid(Uuid::new_v4(), config)
Create(p, config) == \E id \in FreshIds : CreateWithUuid(p, id, config)

\* lines 230-236: Self::load(...).await?
CreateLoad(p) ==
    /\ pc[p] = "c_load"
    /\ signal' = NoSignal
    /\ UNCHANGED <<mgr, cfgData, libraries, lockWriter, calls, partial, live>>
    /\ \E o \in LoadOutcomes(DbPath(args[p].id) \in dir) :
        /\ dir' = IF o.db THEN dir \cup {DbPath(args[p].id)} ELSE dir
        /\ resumed' = IF o.jobs THEN {args[p].id} ELSE {}
        /\ resumeFailed' = IF o.resume = "Failed" THEN {args[p].id} ELSE {}
        /\ IF o.status = "Ok"
           THEN /\ pc' = [pc EXCEPT ![p] = "c_seed"]
                /\ last' = NoReturn
                /\ UNCHANGED <<args, attempt>>
           ELSE /\ Finish(p, Return(p, "create", o.status, 0, NoConfig, <<>>))
                /\ attempt' = AttemptFailed(args[p].id)

\* lines 239-241: indexer_rules_seeder(&library.db).await?, then the
\* invalidate_query! that precedes the request for the write lock
CreateSeed(p) ==
    /\ resumed' = {} /\ resumeFailed' = {}
    /\ pc[p] = "c_seed"
    /\ UNCHANGED <<mgr, dir, cfgData, libraries, lockWriter, calls, partial, live>>
    /\ \E seedOk \in BOOLEAN :
        IF seedOk
        THEN /\ signal' = LibraryList
             /\ pc' = [pc EXCEPT ![p] = "c_push"]
             /\ last' = NoReturn
             /\ UNCHANGED <<args, attempt>>
        ELSE /\ Finish(p, Return(p, "create", "Seeder", 0, NoConfig, <<>>))
             /\ attempt' = AttemptFailed(args[p].id)
             /\ signal' = NoSignal

\* lines 243-244: self.libraries.write().await.push(library); Ok(wrapped)
PushLibrary_DefaultConfig(libs, lib) == Append(libs, Library(lib.id, NoConfig))
PushLibrary(libs, lib) == Append(libs, lib)

CreatePush(p) ==
    /\ resumed' = {} /\ resumeFailed' = {}
    /\ pc[p] = "c_push"
    /\ lockWriter = NoProc
    /\ libraries' = PushLibrary(libraries, Library(args[p].id, args[p].config))
    /\ live' = live \cup {Wrapped(args[p].id, args[p].config)}
    /\ attempt' = [attempt EXCEPT ![args[p].id] = "none"]
    /\ Finish(p, Return(p, "create", "Ok", args[p].id, args[p].config, <<>>))
    /\ signal' = NoSignal
    /\ UNCHANGED <<mgr, dir, cfgData, lockWriter, calls, partial>>

(***************************************************************************)
(* LibraryManager::get_all_libraries_config / get_library                  *)
(***************************************************************************)
\* lines 247-257, under the read lock
List(p) ==
    /\ resumed' = {} /\ resumeFailed' = {}
    /\ UNCHANGED attempt
    /\ mgr = "up" /\ pc[p] = "idle"
    /\ lockWriter = NoProc
    /\ last' = Return(p, "list", "Ok", 0, NoConfig,
                      [i \in 1..Len(libraries) |->
                          Wrapped(libraries[i].id, libraries[i].config)])
    /\ signal' = NoSignal
    /\ UNCHANGED <<mgr, dir, cfgData, libraries, lockWriter, pc, args,
                   calls, partial, live>>

\* lines 351-358, under the read lock
GetLibrary(p, id) ==
    /\ resumed' = {} /\ resumeFailed' = {}
    /\ UNCHANGED attempt
    /\ mgr = "up" /\ pc[p] = "idle"
    /\ lockWriter = NoProc
    /\ last' = IF id \in RegisteredIds(libraries)
               THEN Return(p, "get_library", "Some", id,
                           libraries[FindIndex(libraries, id)].config, <<>>)
               ELSE Return(p, "get_library", "None", id, NoConfig, <<>>)
    /\ signal' = NoSignal
    /\ UNCHANGED <<mgr, dir, cfgData, libraries, lockWriter, pc, args,
                   calls, partial, live>>

(***************************************************************************)
(* LibraryManager::edit                                                    *)
(***************************************************************************)
\* lines 277-282: the present fields replace the stored ones
ApplyEdit(config, nameOpt, descOpt) ==
    [name |-> IF nameOpt = <<>> THEN config.name ELSE nameOpt[1],
     description |-> IF descOpt = <<>> THEN config.description ELSE descOpt[1]]

\* lines 270-289: from the write lock to the read().await of line 291.
\* The write guard `libraries` lives to the end of the function.
Edit(p, id, nameOpt, descOpt) ==
    /\ resumed' = {} /\ resumeFailed' = {}
    /\ UNCHANGED attempt
    /\ mgr = "up" /\ pc[p] = "idle" /\ Budget
    /\ lockWriter = NoProc
    /\ calls' = calls + 1
    /\ UNCHANGED <<mgr, partial>>
    /\ IF id \notin RegisteredIds(libraries)
       THEN /\ Finish(p, Return(p, "edit", "LibraryNotFound", id, NoConfig, <<>>))
            /\ signal' = NoSignal
            /\ UNCHANGED <<dir, cfgData, libraries, lockWriter, live>>
       ELSE LET i == FindIndex(libraries, id)
                new == ApplyEdit(libraries[i].config, nameOpt, descOpt)
            IN  /\ libraries' = [libraries EXCEPT ![i].config = new]
                /\ live' = {w \in live : w.uuid # id}
                /\ \E saveOk \in BOOLEAN :
                    IF saveOk
                    THEN /\ dir' = dir \cup {ConfigPath(id)}
                         /\ cfgData' = [cfgData EXCEPT ![id] = new]
                         /\ signal' = LibraryList
                         /\ lockWriter' = p
                         /\ pc' = [pc EXCEPT ![p] = "e_read"]
                         /\ args' = [args EXCEPT ![p] = [id |-> id, config |-> new]]
                         /\ last' = NoReturn
                    ELSE /\ Finish(p, Return(p, "edit", "FileIO", id, NoConfig, <<>>))
                         /\ signal' = NoSignal
                         /\ UNCHANGED <<dir, cfgData, lockWriter>>

\* lines 291-316: self.libraries.read().await is polled; the read guard is
\* granted only while no write guard exists, else the task stays parked.
\* With the guard the locations are registered again, Ok(()) is returned
\* and both guards are dropped.
EditReadLock(p) ==
    /\ resumed' = {} /\ resumeFailed' = {}
    /\ UNCHANGED attempt
    /\ pc[p] \in {"e_read", "e_wait"}
    /\ signal' = NoSignal
    /\ UNCHANGED <<mgr, dir, cfgData, libraries, calls, partial, live>>
    /\ IF lockWriter = NoProc
       THEN /\ Finish(p, Return(p, "edit", "Ok", args[p].id, NoConfig, <<>>))
            /\ lockWriter' = NoProc
       ELSE /\ pc' = [pc EXCEPT ![p] = "e_wait"]
            /\ last' = NoReturn
            /\ UNCHANGED <<lockWriter, args>>

(***************************************************************************)
(* LibraryManager::delete                                                  *)
(***************************************************************************)
\* fs::remove_file(path), which the environment may refuse
RemoveFile(f, refused) ==
    IF f \notin dir THEN "NotFound"
    ELSE IF refused THEN "PermissionDenied"
    ELSE "Ok"

\* try_join!(remove db, remove config)?
DeleteOutcome_EitherRemoved(dbRes, cfgRes) ==
    IF dbRes = "Ok" \/ cfgRes = "Ok" THEN "Ok" ELSE "FileIO"
DeleteOutcome(dbRes, cfgRes) ==
    IF dbRes = "Ok" /\ cfgRes = "Ok" THEN "Ok" ELSE "FileIO"

\* lines 320-347, the whole of it under the write lock
Delete(p, id, dbRefused, cfgRefused) ==
    /\ resumed' = {} /\ resumeFailed' = {}
    /\ UNCHANGED attempt
    /\ mgr = "up" /\ pc[p] = "idle" /\ Budget
    /\ lockWriter = NoProc
    /\ calls' = calls + 1
    /\ UNCHANGED <<mgr, lockWriter, pc, args>>
    /\ IF id \notin RegisteredIds(libraries)
       THEN /\ last' = Return(p, "delete", "LibraryNotFound", id, NoConfig, <<>>)
            /\ signal' = NoSignal
            /\ UNCHANGED <<dir, cfgData, libraries, partial, live>>
       ELSE LET dbRes == RemoveFile(DbPath(id), dbRefused)
                cfgRes == RemoveFile(ConfigPath(id), cfgRefused)
                res == DeleteOutcome(dbRes, cfgRes)
            IN  /\ dir' = dir \ (  (IF dbRes = "Ok" THEN {DbPath(id)} ELSE {})
                                 \cup (IF cfgRes = "Ok" THEN {ConfigPath(id)} ELSE {}))
                /\ cfgData' = IF cfgRes = "Ok"
                              THEN [cfgData EXCEPT ![id] = NoConfig] ELSE cfgData
                \* detail: the result of each removal; retry: an earlier delete
                \* of this id removed exactly one of the two files
                /\ last' = [Return(p, "delete", res, id, NoConfig, <<>>)
                               EXCEPT !.detail = <<dbRes, cfgRes>>,
                                      !.retry = (id \in partial)]
                /\ IF res = "Ok"
                   THEN /\ signal' = LibraryList
                        /\ libraries' = Retain(libraries, id)
                        /\ live' = {w \in live : w.uuid # id}
                        /\ partial' = partial \ {id}
                   ELSE /\ signal' = NoSignal
                        /\ UNCHANGED <<libraries, live>>
                        /\ partial' = IF (dbRes = "Ok") # (cfgRes = "Ok")
                                      THEN partial \cup {id} ELSE partial

(***************************************************************************)
(* Shallow scan (location/indexer/shallow.rs)                              *)
(*                                                                         *)
(* A directory entry and a path record are both <<n, v>>: path number n    *)
(* with metadata version v. Path 0 is the walked directory itself.         *)
(***************************************************************************)
\* BATCH_SIZE is the number of files to index at each step
BATCH_SIZE == 1000

\* cap on the number of shallow scans started in one run
MaxScans == 2
\* cap on the number of changes made to the walked directory in one run
MaxFsChanges == 1

RootPath == 0
MaxPath == BATCH_SIZE + 1
PathRec(n, v) == <<n, v>>
RootRec == PathRec(RootPath, 1)

\* the directories walked: empty, two entries, one entry more than a batch
SmallDir == {PathRec(1, 1), PathRec(2, 1)}
BigDir == {PathRec(n, 1) : n \in 1..MaxPath}
FsOptions == {{}, SmallDir, BigDir}
\* the path records found at the start: none, or those of an older state of
\* the directory (path 2 recorded with other metadata, path 3 since deleted)
DbOptions == {{}, {PathRec(2, 2), PathRec(3, 1)}}
SubPaths == {"", "sub"}
\* the paths whose entry the walk fails to read: none, or two, of which the
\* small directory holds one
UnreadableOptions == {{}, {2, 3}}
\* the paths and metadata versions a change of the directory may involve
TouchPaths == {1, 2}
TouchVersions == {0, 1, 2}

VARIABLES
    fs,           \* entries of the walked directory
    unreadable,   \* paths whose entry cannot be read
    subPath,      \* the sub_path argument of the scans
    db,           \* path records of the location
    spc,          \* position of the scan: "idle" | "remove" | "save" | "invoke"
    walked,       \* the scan's discovered entries (to_insert), in walk order
    to_remove,    \* the scan's path records to delete
    errors,       \* the scan's non-fatal walk errors
    steps,        \* the scan's save steps still to execute
    total_paths,  \* the scan's running total of processed paths
    saved,        \* history: save steps executed by the scan
    invoked,      \* history: orphan remover invocations made by the scan
    result,       \* return of the latest scan: "none" | "running" | "Ok" | error
    scans,        \* history: number of scans started
    fsChanges,    \* history: number of changes made to the directory
    stable,       \* history: the directory is as the latest walk found it
    repeat,       \* history: the scan in hand follows a scan that returned Ok
                  \*          with no change of the directory since its walk
    cut,          \* history: <<k>> when the latest scan that walked was cut
                  \*          short after k save steps, <<>> when it returned Ok
    rerun,        \* history: the value of cut when the scan in hand began, if
                  \*          the directory had not changed since that walk
    executed,     \* history: the save steps the scan has executed, in order
    removal       \* history: "none" | "done" | "failed": how the scan's
                  \*          remove_non_existing_file_paths call ended

svars == <<fs, unreadable, subPath, db, spc, walked, to_remove, errors, steps,
           total_paths, saved, invoked, result, scans, fsChanges, stable, repeat,
           cut, rerun, executed, removal>>

\* no scan has run
ScanIdle ==
    /\ spc = "idle"
    /\ walked = <<>>
    /\ to_remove = {}
    /\ errors = {}
    /\ steps = <<>>
    /\ total_paths = 0
    /\ saved = 0
    /\ invoked = 0
    /\ result = "none"
    /\ scans = 0
    /\ fsChanges = 0
    /\ stable = FALSE
    /\ repeat = FALSE
    /\ cut = <<>>
    /\ rerun = <<>>
    /\ executed = <<>>
    /\ removal = "none"

SInit ==
    /\ fs \in FsOptions
    /\ unreadable \in UnreadableOptions
    /\ subPath \in SubPaths
    /\ db \in DbOptions
    /\ ScanIdle

\* check_file_path_exists(sub-path directory, db)
CheckFilePathExists(records) == \E r \in records : r[1] = RootPath
\* lines 43-62: the first component of (add_root, to_walk_path)
AddRoot_WheneverSubPath(sub, records) == sub # ""
AddRoot(sub, records) ==
    IF sub # "" THEN ~CheckFilePathExists(records) ELSE FALSE

\* every entry a directory can hold, in the order the walk yields them
Candidates ==
    [i \in 1..(2 * MaxPath) |-> PathRec((i + 1) \div 2, 2 - (i % 2))]

\* walk_single_dir: the discovered entries are the readable entries of the
\* directory that no path record matches, after the root when add_root
WalkedOf(entries, unread, records, addRoot) ==
    (IF addRoot THEN <<RootRec>> ELSE <<>>)
    \o SelectSeq(Candidates,
                 LAMBDA e : e \in entries /\ e[1] \notin unread /\ e \notin records)
\* walk_single_dir: the records under the walked directory whose path is no
\* longer in it
ToRemoveOf(entries, records) ==
    LET present == {e[1] : e \in entries}
    IN  {r \in records : r[1] # RootPath /\ r[1] \notin present}
\* walk_single_dir: one error per entry that cannot be read
ErrorsOf(entries, unread) == {e[1] : e \in {x \in entries : x[1] \in unread}}

\* remove_non_existing_file_paths(to_remove, db)
RemoveNonExistingFilePaths(records, removed) == records \ removed
\* execute_indexer_save_step: the step's entries become the records of their paths
ExecuteIndexerSaveStep(records, step) ==
    LET paths == {step.walked[i][1] : i \in 1..Len(step.walked)}
    IN  {r \in records : r[1] \notin paths} \cup Range(step.walked)

\* lines 84-98: walked.chunks(BATCH_SIZE) numbered from 0
Chunks_ShortBatches(s) ==
    [i \in 1..((Len(s) + BATCH_SIZE - 2) \div (BATCH_SIZE - 1)) |->
        [chunk_idx |-> i - 1,
         walked |-> SubSeq(s, (i - 1) * (BATCH_SIZE - 1) + 1,
                           IF i * (BATCH_SIZE - 1) < Len(s)
                           THEN i * (BATCH_SIZE - 1) ELSE Len(s))]]
Chunks_FullOnly(s) ==
    [i \in 1..(Len(s) \div BATCH_SIZE) |->
        [chunk_idx |-> i - 1,
         walked |-> SubSeq(s, (i - 1) * BATCH_SIZE + 1, i * BATCH_SIZE)]]
Chunks(s) ==
    [i \in 1..((Len(s) + BATCH_SIZE - 1) \div BATCH_SIZE) |->
        [chunk_idx |-> i - 1,
         walked |-> SubSeq(s, (i - 1) * BATCH_SIZE + 1,
                           IF i * BATCH_SIZE < Len(s) THEN i * BATCH_SIZE ELSE Len(s))]]

\* the errors that end lines 36-75 early
ShallowFailures(sub) ==
    {"IndexerRuleError", "WalkError"}
    \cup (IF sub # "" THEN {"SubPathError"} ELSE {})

\* a scan returns an error
Abort(error) ==
    /\ spc' = "idle"
    /\ result' = error

\* lines 36-77: rules, sub-path checks, the walk and the logging of its errors
Shallow_AbortingOnWalkErrors ==
    /\ spc = "idle" /\ scans < MaxScans
    /\ scans' = scans + 1
    /\ steps' = <<>>
    /\ total_paths' = 0
    /\ saved' = 0
    /\ invoked' = 0
    /\ executed' = <<>>
    /\ removal' = "none"
    /\ UNCHANGED <<fs, unreadable, subPath, db, fsChanges>>
    /\ \E outcome \in {"Ok"} \cup ShallowFailures(subPath) :
        IF outcome = "Ok"
        THEN /\ walked' = WalkedOf(fs, unreadable, db, AddRoot(subPath, db))
             /\ to_remove' = ToRemoveOf(fs, db)
             /\ errors' = ErrorsOf(fs, unreadable)
             /\ IF ErrorsOf(fs, unreadable) = {}
                THEN spc' = "remove" /\ result' = "running"
                ELSE Abort("WalkError")
             /\ repeat' = (result = "Ok" /\ stable)
             /\ rerun' = IF stable THEN cut ELSE <<>>
             /\ cut' = <<0>>
             /\ stable' = TRUE
        ELSE /\ Abort(outcome)
             /\ walked' = <<>>
             /\ to_remove' = {}
             /\ errors' = {}
             /\ repeat' = FALSE
             /\ rerun' = <<>>
             /\ UNCHANGED <<stable, cut>>
Shallow ==
    /\ spc = "idle" /\ scans < MaxScans
    /\ scans' = scans + 1
    /\ steps' = <<>>
    /\ total_paths' = 0
    /\ saved' = 0
    /\ invoked' = 0
    /\ executed' = <<>>
    /\ removal' = "none"
    /\ UNCHANGED <<fs, unreadable, subPath, db, fsChanges>>
    /\ \E outcome \in {"Ok"} \cup ShallowFailures(subPath) :
        IF outcome = "Ok"
        THEN /\ walked' = WalkedOf(fs, unreadable, db, AddRoot(subPath, db))
             /\ to_remove' = ToRemoveOf(fs, db)
             /\ errors' = ErrorsOf(fs, unreadable)
             /\ spc' = "remove"
             /\ result' = "running"
             /\ repeat' = (result = "Ok" /\ stable)
             /\ rerun' = IF stable THEN cut ELSE <<>>
             /\ cut' = <<0>>
             /\ stable' = TRUE
        ELSE /\ Abort(outcome)
             /\ walked' = <<>>
             /\ to_remove' = {}
             /\ errors' = {}
             /\ repeat' = FALSE
             /\ rerun' = <<>>
             /\ UNCHANGED <<stable, cut>>

\* lines 80-98: remove_non_existing_file_paths(...).await?, then the save
\* steps are built
RemoveNonExisting_IgnoringFailure ==
    /\ spc = "remove"
    /\ UNCHANGED <<fs, unreadable, subPath, walked, to_remove, errors, saved,
                   invoked, scans, fsChanges, stable, repeat, cut, rerun,
                   executed, result>>
    /\ steps' = Chunks(walked)
    /\ total_paths' = Len(walked)
    /\ spc' = IF Len(Chunks(walked)) = 0 THEN "invoke" ELSE "save"
    /\ \E ok \in BOOLEAN :
        IF ok
        THEN /\ db' = RemoveNonExistingFilePaths(db, to_remove)
             /\ removal' = "done"
        ELSE /\ removal' = "failed"
             /\ UNCHANGED db
RemoveNonExisting ==
    /\ spc = "remove"
    /\ UNCHANGED <<fs, unreadable, subPath, walked, to_remove, errors, saved,
                   invoked, scans, fsChanges, stable, repeat, cut, rerun,
                   executed>>
    /\ \E ok \in BOOLEAN :
        IF ok
        THEN /\ db' = RemoveNonExistingFilePaths(db, to_remove)
             /\ removal' = "done"
             /\ steps' = Chunks(walked)
             /\ total_paths' = Len(walked)
             /\ spc' = IF Len(Chunks(walked)) = 0 THEN "invoke" ELSE "save"
             /\ UNCHANGED result
        ELSE /\ Abort("DatabaseError")
             /\ removal' = "failed"
             /\ UNCHANGED <<db, steps, total_paths>>

\* lines 100-102: one turn of the loop over the save steps
SaveStep_InvokingEachStep ==
    /\ spc = "save"
    /\ UNCHANGED <<fs, unreadable, subPath, walked, to_remove, errors,
                   total_paths, scans, fsChanges, stable, repeat, rerun,
                   removal>>
    /\ \E ok \in BOOLEAN :
        IF ok
        THEN /\ db' = ExecuteIndexerSaveStep(db, Head(steps))
             /\ steps' = Tail(steps)
             /\ saved' = saved + 1
             /\ executed' = Append(executed, Head(steps))
             /\ cut' = <<saved + 1>>
             /\ invoked' = invoked + 1
             /\ spc' = IF Len(steps) = 1 THEN "invoke" ELSE "save"
             /\ UNCHANGED result
        ELSE /\ Abort("DatabaseError")
             /\ UNCHANGED <<db, steps, saved, cut, executed, invoked>>
SaveStep ==
    /\ spc = "save"
    /\ UNCHANGED <<fs, unreadable, subPath, walked, to_remove, errors,
                   total_paths, invoked, scans, fsChanges, stable, repeat, rerun,
                   removal>>
    /\ \E ok \in BOOLEAN :
        IF ok
        THEN /\ db' = ExecuteIndexerSaveStep(db, Head(steps))
             /\ steps' = Tail(steps)
             /\ saved' = saved + 1
             /\ executed' = Append(executed, Head(steps))
             /\ cut' = <<saved + 1>>
             /\ spc' = IF Len(steps) = 1 THEN "invoke" ELSE "save"
             /\ UNCHANGED result
        ELSE /\ Abort("DatabaseError")
             /\ UNCHANGED <<db, steps, saved, cut, executed>>

\* lines 104-106: library.orphan_remover.invoke().await; Ok(())
InvokeOrphanRemover ==
    /\ spc = "invoke"
    /\ invoked' = invoked + 1
    /\ spc' = "idle"
    /\ result' = "Ok"
    /\ cut' = <<>>
    /\ UNCHANGED <<fs, unreadable, subPath, db, walked, to_remove, errors, steps,
                   total_paths, saved, scans, fsChanges, stable, repeat, rerun,
                   executed, removal>>

\* something other than the scan creates, rewrites or deletes an entry of
\* the walked directory
FsChange ==
    /\ fsChanges < MaxFsChanges
    /\ \E n \in TouchPaths, v \in TouchVersions :
        /\ fs' = {e \in fs : e[1] # n} \cup (IF v = 0 THEN {} ELSE {PathRec(n, v)})
        /\ fs' # fs
    /\ fsChanges' = fsChanges + 1
    /\ stable' = FALSE
    /\ UNCHANGED <<unreadable, subPath, db, spc, walked, to_remove, errors, steps,
                   total_paths, saved, invoked, result, scans, repeat, cut, rerun,
                   executed, removal>>

\* the scan is cut short where it stands: its task is dropped, or the
\* process terminates
Interrupt ==
    /\ spc \in {"remove", "save", "invoke"}
    /\ Abort("Interrupted")
    /\ UNCHANGED <<fs, unreadable, subPath, db, walked, to_remove, errors, steps,
                   total_paths, saved, invoked, scans, fsChanges, stable, repeat,
                   cut, rerun, executed, removal>>

(***************************************************************************)
(* Orphan-reclamation actor (object/orphan_remover, used at                *)
(* shallow.rs:104 and built at manager.rs:425)                             *)
(*                                                                         *)
(* A single-slot request flag and a loop that, on wake, drains the flag    *)
(* and runs one sweep.                                                     *)
(***************************************************************************)
\* cap on the number of invoke() calls made in one run
MaxInvokes == 5

VARIABLES
    apending,     \* the request flag: a sweep has been asked for and not begun
    asweep,       \* "idle" | "sweeping": what the actor's loop is doing
    issued,       \* history: invoke() calls made
    unserved,     \* history: calls made since the latest sweep began
    serving,      \* history: calls made before the sweep in flight began and
                  \*          after the one before it began
    served,       \* history: calls made before the start of a completed sweep
    sweeps,       \* history: sweeps begun
    burst,        \* history: calls made during the latest sweep
    coalesced     \* history: calls made during the sweep before the latest one,
                  \*          which the latest sweep answers

avars == <<apending, asweep, issued, unserved, serving, served, sweeps, burst,
           coalesced>>

AInit ==
    /\ apending = FALSE
    /\ asweep = "idle"
    /\ issued = 0
    /\ unserved = 0
    /\ serving = 0
    /\ served = 0
    /\ sweeps = 0
    /\ burst = 0
    /\ coalesced = 0

\* the flag after an invoke(): the request is recorded whatever the actor
\* is doing, and a request already recorded absorbs it
FlagAfterInvoke_DroppedWhileSweeping(sweep, flag) == flag \/ sweep = "idle"
FlagAfterInvoke(sweep, flag) == TRUE

\* orphan_remover.invoke()
ActorInvoke ==
    /\ issued < MaxInvokes
    /\ apending' = FlagAfterInvoke(asweep, apending)
    /\ issued' = issued + 1
    /\ unserved' = unserved + 1
    /\ burst' = IF asweep = "sweeping" THEN burst + 1 ELSE burst
    /\ UNCHANGED <<asweep, serving, served, sweeps, coalesced>>

\* the loop wakes, drains the flag and begins a sweep
ActorSweepBegin ==
    /\ asweep = "idle" /\ apending
    /\ apending' = FALSE
    /\ asweep' = "sweeping"
    /\ serving' = unserved
    /\ unserved' = 0
    /\ sweeps' = sweeps + 1
    /\ burst' = 0
    /\ coalesced' = burst
    /\ UNCHANGED <<issued, served>>

\* the sweep ends; a failure is logged and the loop goes on
ActorSweepEnd ==
    /\ asweep = "sweeping"
    /\ asweep' = "idle"
    /\ served' = served + serving
    /\ serving' = 0
    /\ UNCHANGED <<apending, issued, unserved, sweeps, burst, coalesced>>

(***************************************************************************)
(* Sync forwarding task (manager.rs:405-417)                               *)
(*                                                                         *)
(* SyncManager::new hands load a receiver of the library's sync events;    *)
(* load spawns a task that forwards the Created ones to the                *)
(* peer-replication manager.  The sync manager and its channel are outside *)
(* src/: the channel is the broadcast-style channel of the specification,  *)
(* a bounded buffer whose receiver, once it has fallen behind, gets an     *)
(* error from its next receive.                                            *)
(***************************************************************************)
\* cap on the number of sync events emitted in one run
MaxEvents == 4
\* the number of events the channel retains for a receiver
ChannelCapacity == 2

Kinds == {"Created", "Other"}

\* the n-th event the library emitted
SyncMessage(kind, n) == [kind |-> kind, op |-> n]

VARIABLES
    syncId,       \* the library id the sync manager was built with
    chan,         \* events retained for the forwarding task's receiver
    lagged,       \* the receiver has missed events since its last receive
    senderAlive,  \* the sync manager (the sending side) has not been dropped
    task,         \* "recv" | "broadcast" | "done": the forwarding task
    held,         \* the op taken out of a Created event, on its way to p2p
    emitted,      \* history: every event emitted, in order
    broadcasts,   \* history: the calls of broadcast_sync_events, in order
    exit          \* history: the receive outcome that ended the task

yvars == <<syncId, chan, lagged, senderAlive, task, held, emitted, broadcasts,
           exit>>

NoOp == 0

\* SyncManager::new and tokio::spawn of the forwarding task
YInit ==
    /\ syncId \in Ids
    /\ chan = <<>>
    /\ lagged = FALSE
    /\ senderAlive = TRUE
    /\ task = "recv"
    /\ held = NoOp
    /\ emitted = <<>>
    /\ broadcasts = <<>>
    /\ exit = "none"

\* the outcome of sync_rx.recv() once it resolves
RecvOutcome ==
    IF lagged THEN [tag |-> "Err", why |-> "Lagged"]
    ELSE IF chan # <<>> THEN [tag |-> "Ok", msg |-> Head(chan)]
    ELSE [tag |-> "Err", why |-> "Closed"]

\* recv() is pending while the channel is open, empty and not overrun
RecvReady == lagged \/ chan # <<>> \/ ~senderAlive

\* `while let Ok(op) = sync_rx.recv().await`
LoopContinues(outcome) == outcome.tag = "Ok"

\* a local mutation of the library emits a sync event
SyncEmit(kind) ==
    /\ senderAlive
    /\ Len(emitted) < MaxEvents
    /\ LET msg == SyncMessage(kind, Len(emitted) + 1)
       IN  /\ emitted' = Append(emitted, msg)
           /\ IF task = "done"
              THEN UNCHANGED <<chan, lagged>>
              ELSE IF Len(chan) = ChannelCapacity
                   THEN /\ chan' = Append(Tail(chan), msg)
                        /\ lagged' = TRUE
                   ELSE /\ chan' = Append(chan, msg)
                        /\ UNCHANGED lagged
    /\ UNCHANGED <<syncId, senderAlive, task, held, broadcasts, exit>>

\* the last handle of the sync manager is dropped
SyncDrop ==
    /\ senderAlive
    /\ senderAlive' = FALSE
    /\ UNCHANGED <<syncId, chan, lagged, task, held, emitted, broadcasts, exit>>

\* one turn of the loop up to the broadcast: receive, leave the loop on an
\* error, skip an event that is not Created
ForwardRecv ==
    /\ task = "recv"
    /\ RecvReady
    /\ LET outcome == RecvOutcome
       IN  IF LoopContinues(outcome)
           THEN /\ chan' = Tail(chan)
                /\ IF outcome.msg.kind = "Created"
                   THEN task' = "broadcast" /\ held' = outcome.msg.op
                   ELSE UNCHANGED <<task, held>>
                /\ UNCHANGED <<lagged, exit>>
           ELSE /\ task' = "done"
                /\ exit' = outcome.why
                /\ chan' = <<>>
                /\ lagged' = FALSE
                /\ UNCHANGED held
    /\ UNCHANGED <<syncId, senderAlive, emitted, broadcasts>>

\* node_context.p2p.broadcast_sync_events(id, vec![op]).await
ForwardBroadcast ==
    /\ task = "broadcast"
    /\ broadcasts' = Append(broadcasts, <<syncId, <<held>> >>)
    /\ task' = "recv"
    /\ held' = NoOp
    /\ UNCHANGED <<syncId, chan, lagged, senderAlive, emitted, exit>>

(***************************************************************************)
(* LibraryManager::load: the node record (manager.rs:378-400, 419-429)     *)
(*                                                                         *)
(* A library's database holds a table of node records [id, pub_id, name]:  *)
(* id is the local id the database gave the record, pub_id its unique key. *)
(* The database file outlives the node that wrote it: the node that loads  *)
(* it next may be another one.                                             *)
(***************************************************************************)
\* cap on the number of loads made in one run
MaxLoads == 4

\* global ids of nodes (NodeConfig.id), none of them a library id
NodeIds == {11, 12}
\* display names a node may carry (NodeConfig.name)
NodeNames == {"a", "b"}

VARIABLES
    nodeTable,    \* [Ids -> set of node records]: the node table of each
                  \*          library's database
    localOf,      \* history: [Ids -> [NodeIds -> local id]]: Library.local_id
                  \*          of each node's latest load of the library, 0 if none
    loads,        \* history: number of loads made
    loaded        \* history: the latest load: its library, node, node_data
                  \*          and whether the upsert created the record

lvars == <<nodeTable, localOf, loads, loaded>>

NoLoad == [lib |-> 0, node |-> 0, node_data |-> <<>>, created |-> FALSE]

LInit ==
    /\ nodeTable = [l \in Ids |-> {}]
    /\ localOf = [l \in Ids |-> [n \in NodeIds |-> 0]]
    /\ loads = 0
    /\ loaded = NoLoad

\* line 387: let uuid_vec = id.as_bytes().to_vec(), id being load's first
\* argument, the library id
UuidVec(id, node_id) == id

\* lines 388-400: upsert(pub_id equals key, create(key, name, platform),
\* [name::set(name)]) gives the record and the table afterwards
Upsert(table, key, name) ==
    IF \E r \in table : r.pub_id = key
    THEN LET r == CHOOSE x \in table : x.pub_id = key
             u == [r EXCEPT !.name = name]
         IN  [table |-> (table \ {r}) \cup {u}, node_data |-> u, created |-> FALSE]
    ELSE LET c == [id |-> Cardinality(table) + 1, pub_id |-> key, name |-> name]
         IN  [table |-> table \cup {c}, node_data |-> c, created |-> TRUE]

\* the node node_id, named name, loads library id up to the assembly of
\* its Library value
LoadNode(id, node_id, name) ==
    /\ loads < MaxLoads
    /\ loads' = loads + 1
    /\ LET res == Upsert(nodeTable[id], UuidVec(id, node_id), name)
       IN  /\ nodeTable' = [nodeTable EXCEPT ![id] = res.table]
           /\ localOf' = [localOf EXCEPT ![id][node_id] = res.node_data.id]
           /\ loaded' = [lib |-> id, node |-> node_id,
                         node_data |-> res.node_data, created |-> res.created]

(***************************************************************************)
(* Specifications                                                          *)
(***************************************************************************)
\* what the actions of each component leave alone
notLibrary == <<svars, avars, yvars, lvars>>
notScan == <<mvars, avars, yvars, lvars>>
notActor == <<mvars, svars, yvars, lvars>>
notSync == <<mvars, svars, avars, lvars>>
notLoad == <<mvars, svars, avars, yvars>>

vars == <<mvars, svars, avars, yvars, lvars>>

DoInitialize == Initialize /\ UNCHANGED notLibrary
DoCrash == Crash /\ UNCHANGED notLibrary
DoCreate == (\E p \in Procs, c \in Configs : Create(p, c)) /\ UNCHANGED notLibrary
DoCreateWithUuid ==
    (\E p \in Procs, id \in Ids, c \in Configs : CreateWithUuid(p, id, c))
    /\ UNCHANGED notLibrary
DoCreateLoad(p) == CreateLoad(p) /\ UNCHANGED notLibrary
DoCreateSeed(p) == CreateSeed(p) /\ UNCHANGED notLibrary
DoCreatePush(p) == CreatePush(p) /\ UNCHANGED notLibrary
DoList == (\E p \in Procs : List(p)) /\ UNCHANGED notLibrary
DoGetLibrary == (\E p \in Procs, id \in Ids : GetLibrary(p, id)) /\ UNCHANGED notLibrary
DoEdit ==
    (\E p \in Procs, id \in Ids, n \in NameOpts, d \in DescOpts : Edit(p, id, n, d))
    /\ UNCHANGED notLibrary
DoEditReadLock(p) == EditReadLock(p) /\ UNCHANGED notLibrary
DoDelete ==
    (\E p \in Procs, id \in Ids, dbRefused \in BOOLEAN, cfgRefused \in BOOLEAN :
        Delete(p, id, dbRefused, cfgRefused))
    /\ UNCHANGED notLibrary

\* the scan at rest over an empty directory
SRest == fs = {} /\ unreadable = {} /\ subPath = "" /\ db = {} /\ ScanIdle

\* a forwarding task whose library is never used
YRest ==
    /\ syncId = 1
    /\ chan = <<>>
    /\ lagged = FALSE
    /\ senderAlive = FALSE
    /\ task = "done"
    /\ held = NoOp
    /\ emitted = <<>>
    /\ broadcasts = <<>>
    /\ exit = "Closed"

Init == MInit /\ SRest /\ AInit /\ YRest /\ LInit

Next ==
    \/ DoInitialize
    \/ DoCrash
    \/ DoCreate
    \/ DoCreateWithUuid
    \/ \E p \in Procs : DoCreateLoad(p)
    \/ \E p \in Procs : DoCreateSeed(p)
    \/ \E p \in Procs : DoCreatePush(p)
    \/ DoList
    \/ DoGetLibrary
    \/ DoEdit
    \/ \E p \in Procs : DoEditReadLock(p)
    \/ DoDelete

Spec == Init /\ [][Next]_vars

\* the runtime keeps polling a task that can make progress: every step of a
\* call in progress is taken if it stays possible. Nothing obliges a caller
\* to start a call, or the process to terminate.
LiveSpec ==
    /\ Spec
    /\ \A p \in Procs :
        /\ WF_vars(DoCreateLoad(p))
        /\ WF_vars(DoCreateSeed(p))
        /\ WF_vars(DoCreatePush(p))
        /\ WF_vars(DoEditReadLock(p))

ScanInit == MInit /\ SInit /\ AInit /\ YRest /\ LInit

DoShallow == Shallow /\ UNCHANGED notScan
DoRemoveNonExisting == RemoveNonExisting /\ UNCHANGED notScan
DoSaveStep == SaveStep /\ UNCHANGED notScan
DoInvokeOrphanRemover == InvokeOrphanRemover /\ UNCHANGED notScan
DoFsChange == FsChange /\ UNCHANGED notScan
DoInterrupt == Interrupt /\ UNCHANGED notScan

ScanNext ==
    \/ DoShallow
    \/ DoRemoveNonExisting
    \/ DoSaveStep
    \/ DoInvokeOrphanRemover
    \/ DoFsChange
    \/ DoInterrupt

ScanSpec == ScanInit /\ [][ScanNext]_vars

DoActorInvoke == ActorInvoke /\ UNCHANGED notActor
DoActorSweepBegin == ActorSweepBegin /\ UNCHANGED notActor
DoActorSweepEnd == ActorSweepEnd /\ UNCHANGED notActor

ActorInit == MInit /\ SRest /\ AInit /\ YRest /\ LInit

ActorNext ==
    \/ DoActorInvoke
    \/ DoActorSweepBegin
    \/ DoActorSweepEnd

\* the actor's loop is a spawned task: it is polled while it can advance.
\* Nothing obliges a caller to invoke.
ActorSpec ==
    /\ ActorInit /\ [][ActorNext]_vars
    /\ WF_vars(DoActorSweepBegin)
    /\ WF_vars(DoActorSweepEnd)

DoSyncEmit == (\E kind \in Kinds : SyncEmit(kind)) /\ UNCHANGED notSync
DoSyncDrop == SyncDrop /\ UNCHANGED notSync
DoForwardRecv == ForwardRecv /\ UNCHANGED notSync
DoForwardBroadcast == ForwardBroadcast /\ UNCHANGED notSync

SyncInit == MInit /\ SRest /\ AInit /\ YInit /\ LInit

SyncNext ==
    \/ DoSyncEmit
    \/ DoSyncDrop
    \/ DoForwardRecv
    \/ DoForwardBroadcast

SyncSpec == SyncInit /\ [][SyncNext]_vars

DoLoadNode ==
    /\ \E id \in Ids, node_id \in NodeIds, name \in NodeNames :
          LoadNode(id, node_id, name)
    /\ UNCHANGED notLoad

LoadInit == MInit /\ SRest /\ AInit /\ YRest /\ LInit

LoadNext ==
    \/ DoLoadNode

LoadSpec == LoadInit /\ [][LoadNext]_vars

(***************************************************************************)
(* Properties                                                              *)
(***************************************************************************)

\* C1: the registry never holds two entries with the same library id.
\* Refuted: create_with_uuid pushes without looking for the id (line 243).
RegistryIdsUnique ==
    \A i, j \in 1..Len(libraries) : libraries[i].id = libraries[j].id => i = j

\* C2: a delete that retries a delete which removed exactly one of the two
\* files, and whose removals the environment no longer refuses, returns
\* success with both files gone and the id unregistered.
\* Refuted: the removal of the file already gone fails with NotFound.
RetriedDeleteSucceeds ==
    (last.op = "delete" /\ last.retry /\ "PermissionDenied" \notin Range(last.detail))
    => /\ last.status = "Ok"
       /\ ConfigPath(last.uuid) \notin dir
       /\ DbPath(last.uuid) \notin dir
       /\ last.uuid \notin RegisteredIds(libraries)

\* C3: a delete of a registered id in which a removal failed returns an
\* error and leaves the id registered; a delete that returns success leaves
\* neither file on disk and the id unregistered.
DeleteUnregistersAfterBothRemovals ==
    (last.op = "delete" /\ last.status # "LibraryNotFound")
    => /\ (\E i \in 1..2 : last.detail[i] # "Ok")
            => (last.status = "FileIO" /\ last.uuid \in RegisteredIds(libraries))
       /\ last.status = "Ok"
            => /\ ConfigPath(last.uuid) \notin dir
               /\ DbPath(last.uuid) \notin dir
               /\ last.uuid \notin RegisteredIds(libraries)
\* C3 witness: a delete has just failed after removing one file of the two
DeleteFailedHalfway ==
    /\ last.op = "delete" /\ last.status = "FileIO"
    /\ \E i, j \in 1..2 : last.detail[i] = "Ok" /\ last.detail[j] = "PermissionDenied"
    /\ last.uuid \in RegisteredIds(libraries)

\* C4: an edit that has applied and persisted its fields goes on to return
\* Ok(()), releasing the registry lock, unless the process terminates first.
\* Refuted: line 291 awaits the read lock while the write guard of line 270
\* is still held by the same call.
EditEventuallyReturns ==
    \A p \in Procs :
        (pc[p] = "e_read")
            ~> \/ (last.proc = p /\ last.op = "edit" /\ last.status = "Ok"
                   /\ lockWriter = NoProc)
               \/ mgr # "up"

\* C5: an initialize over a directory holding a config file with no
\* database file does not fail on it, registers no library for its id and
\* creates no database for it; a create enters its database work only with
\* its config file written, and only that work creates a database file.
ConfigOnlyLibrarySkipped ==
    [][ /\ last'.op = "initialize" =>
             \A id \in Ids :
                 (ConfigPath(id) \in dir /\ DbPath(id) \notin dir) =>
                     /\ last'.status # "FileIO"
                     /\ last'.status = "LoadError" =>
                            \E other \in Ids \ {id} :
                                ConfigPath(other) \in dir /\ DbPath(other) \in dir
                     /\ id \notin RegisteredIds(libraries')
                     /\ DbPath(id) \notin dir'
        /\ \A p \in Procs :
             (pc'[p] = "c_load" /\ pc[p] # "c_load") =>
                 /\ ConfigPath(args'[p].id) \in dir'
                 /\ cfgData'[args'[p].id] = args'[p].config
        /\ \A id \in Ids :
             (DbPath(id) \in dir' /\ DbPath(id) \notin dir) =>
                 \E p \in Procs : pc[p] = "c_load" /\ args[p].id = id
      ]_vars
\* C5 witness: a manager built over a directory that holds a config file
\* without its database file
InitializedOverConfigOnly ==
    /\ mgr = "up" /\ last.op = "initialize" /\ last.status = "Ok"
    /\ \E id \in Ids :
        ConfigPath(id) \in dir /\ DbPath(id) \notin dir
        /\ id \notin RegisteredIds(libraries)

\* C6: a create or create_with_uuid whose config has an empty or an
\* all-whitespace name returns InvalidConfig at once, writes nothing to the
\* directory, emits no invalidation and leaves the registry as it was.
BlankNameRejectedWithoutEffect ==
    [][ \A p \in Procs, id \in Ids, c \in Configs :
          ( /\ c.name \in { <<>>, <<" ", "\t">> }
            /\ CreateWithUuid(p, id, c) )
          => /\ last' = Return(p, "create", "InvalidConfig", 0, NoConfig, <<>>)
             /\ pc'[p] = "idle"
             /\ signal' = NoSignal
             /\ UNCHANGED <<dir, cfgData, libraries, lockWriter>>
      ]_vars
\* C6 witness: a create has just been rejected for its name
BlankNameRejected ==
    /\ last.op = "create" /\ last.status = "InvalidConfig"
    /\ calls > 0

\* C7: a create that returns success returns the id and the config it
\* registered, and a list returns, for every library created and neither
\* edited nor deleted since, an entry with its id and its exact config.
CreatedLibraryListed ==
    /\ (last.op = "create" /\ last.status = "Ok")
          => \E i \in 1..Len(libraries) :
                 libraries[i] = Library(last.uuid, last.config)
    /\ last.op = "list" => \A w \in live : w \in Range(last.list)
\* C7 witness: a list returned while a created library was registered
ListedAfterCreate ==
    /\ last.op = "list"
    /\ \E w \in live : w.config.name = <<"P">> /\ w \in Range(last.list)

\* C8: no registered library has an empty or all-whitespace name.
\* Refuted: edit stores the name it is given without validating it
\* (lines 277-279).
RegisteredNamesNotBlank ==
    \A i \in 1..Len(libraries) :
        LET name == libraries[i].config.name
        IN  Len(name) > 0 /\ \E k \in 1..Len(name) : name[k] \notin WhitespaceChars

\* the ids whose config file and database file are both in the directory
CompleteIds(d) == {id \in 0..255 : ConfigPath(id) \in d /\ DbPath(id) \in d}

\* C9: initialize never fails on a config file with a malformed name or
\* without its database file; when it succeeds the registry holds exactly
\* the libraries with a valid name and both files, and when it fails, the
\* load of such a library is what failed.
DiscoveryProblemsSkipped ==
    last.op = "initialize"
    => /\ last.status \in {"Ok", "LoadError"}
       /\ last.status = "Ok" => RegisteredIds(libraries) = CompleteIds(dir)
       /\ last.status = "LoadError" => CompleteIds(dir) # {}
\* C9 witness: a manager built over a directory holding a malformed name,
\* a config file without database, and a complete library, which it loaded
InitializedPastBadEntries ==
    /\ mgr = "up" /\ last.op = "initialize" /\ last.status = "Ok"
    /\ \E e \in dir : e.file /\ e.ext = "sdlibrary" /\ ParseUuid(e.stem) = ParseError
    /\ \E id \in Ids : ConfigPath(id) \in dir /\ DbPath(id) \notin dir
    /\ \E id \in Ids : id \in CompleteIds(dir) /\ id \in RegisteredIds(libraries)

\* C10: a scan that follows a scan which returned Ok, with no change of the
\* directory since that scan's walk, discovers nothing to insert and nothing
\* to remove, and executes no save step.
SecondScanDeltaEmpty ==
    repeat => (walked = <<>> /\ to_remove = {} /\ steps = <<>> /\ saved = 0)
\* C10 witness: such a second scan has returned, over a directory with
\* entries that the first scan recorded
SecondScanRan ==
    /\ repeat /\ result = "Ok" /\ scans >= 2
    /\ fs # {} /\ \E e \in fs : e \in db

\* the path records agree with the directory: every readable entry is
\* recorded as it is, no record is left for a path that is gone, no path has
\* two records, and the walked sub-path has its own record
Settled ==
    /\ \A e \in fs : e[1] \notin unreadable => e \in db
    /\ LET present == {e[1] : e \in fs}
       IN  \A r \in db : r[1] # RootPath => r[1] \in present
    /\ Cardinality({r[1] : r \in db}) = Cardinality(db)
    /\ subPath # "" => RootRec \in db

\* C11: a scan that runs to completion after a scan that was cut short
\* (after its walk, its removal step or any number of its save steps), with
\* the directory unchanged, leaves the path records as a single scan does:
\* none missing, none left over, none duplicated.
RerunAfterInterruptionSettles ==
    (rerun # <<>> /\ result = "Ok" /\ stable) => Settled
\* C11 witness: a scan cut short after one save step of two was run again
\* to completion
RerunCompletedAfterPartialSave ==
    /\ rerun = <<1>> /\ result = "Ok" /\ stable
    /\ Cardinality(fs) > BATCH_SIZE

\* the entry at place k of the walk, read from the save steps as batches
\* of BATCH_SIZE
EntryOfSteps(k, stepSeq) ==
    stepSeq[((k - 1) \div BATCH_SIZE) + 1].walked[((k - 1) % BATCH_SIZE) + 1]

\* C12: a scan that returns Ok over a walk of N entries has executed
\* ceil(N / BATCH_SIZE) save steps, numbered 0, 1, ... in the order executed;
\* every step but the last holds BATCH_SIZE entries, the last between 1 and
\* BATCH_SIZE, and the steps laid end to end are the walk.
SaveStepsPartitionWalk ==
    result = "Ok" =>
        LET n == Len(walked)
            m == Len(executed)
        IN  /\ m * BATCH_SIZE >= n
            /\ (m - 1) * BATCH_SIZE < n \/ (m = 0 /\ n = 0)
            /\ saved = m
            /\ \A i \in 1..m :
                 /\ executed[i].chunk_idx = i - 1
                 /\ Len(executed[i].walked) =
                        IF i < m THEN BATCH_SIZE ELSE n - (m - 1) * BATCH_SIZE
            /\ \A k \in 1..n : EntryOfSteps(k, executed) = walked[k]
\* C12 witness: a scan of one entry more than a batch returned Ok after a
\* full save step and a save step of one entry
ScanOfBatchAndOneSaved ==
    /\ result = "Ok" /\ Len(walked) = BATCH_SIZE + 1
    /\ Len(executed) = 2 /\ Len(executed[2].walked) = 1

\* C13: every invoke() is followed by a sweep that begins after it and
\* completes, and the actor never runs more sweeps than it had calls:
\* the calls made during one sweep are answered by the one sweep after it.
EveryInvokeSwept ==
    /\ [](sweeps <= issued)
    /\ [](asweep = "idle" /\ ~apending => unserved = 0)
    /\ \A k \in 1..MaxInvokes : (issued >= k) ~> (served >= k)
\* C13 witness: three calls made during one sweep were answered by a
\* single later sweep
BurstSweptOnce ==
    /\ coalesced = 3 /\ sweeps = 2 /\ asweep = "idle"
    /\ issued = 4 /\ served = 4

\* the Created events of a sequence of events, as the calls that forward them
RECURSIVE ForwardsOf(_, _)
ForwardsOf(id, msgs) ==
    IF msgs = <<>> THEN <<>>
    ELSE LET rest == ForwardsOf(id, Tail(msgs))
         IN  IF Head(msgs).kind = "Created"
             THEN << <<id, <<Head(msgs).op>> >> >> \o rest
             ELSE rest

IsPrefix(a, b) == Len(a) <= Len(b) /\ SubSeq(b, 1, Len(a)) = a

\* C14: the calls of broadcast_sync_events are the Created events the
\* library emitted, once each, in the order emitted and tagged with the
\* library id: at every moment a prefix of them, and all of them once the
\* forwarding task has nothing left to receive.
CreatedEventsForwardedOnce ==
    /\ IsPrefix(broadcasts, ForwardsOf(syncId, emitted))
    /\ (task = "done" \/ (task = "recv" /\ ~RecvReady))
           => broadcasts = ForwardsOf(syncId, emitted)

\* C18: the forwarding task has stopped only if the sync channel is closed.
ForwardingStopsOnlyOnClose ==
    task = "done" => (~senderAlive /\ exit = "Closed")

\* C15: the scan's save steps come after its removal of the records of
\* vanished paths has completed: a save step runs only once the removal is
\* done and none of the records to remove is left, the removal runs only
\* before the first save step, and a scan whose removal failed has run no
\* save step and inserted no record.
RemovalPrecedesSaves ==
    /\ [](spc = "save" \/ saved > 0 =>
             removal = "done" /\ db \cap to_remove = {})
    /\ [](removal = "failed" =>
             saved = 0 /\ spc = "idle" /\ result = "DatabaseError")
    /\ [][removal' # removal /\ removal' # "none" =>
             spc = "remove" /\ saved = 0 /\ saved' = 0]_vars
    /\ [][removal' = "failed" => db' = db]_vars
\* C15 witness: a scan with a record to remove has removed it and then
\* run a save step
SavedAfterRemoval ==
    /\ removal = "done" /\ saved > 0 /\ to_remove # {}

\* C16: the orphan remover is invoked by a scan exactly once, when no
\* save step is left, and the scan then returns Ok; this holds for a scan
\* of no entries too. While the removal or a save step is pending the scan
\* has not invoked it, and a scan that ended with an error never did.
InvokedOnceAfterLastSave ==
    /\ [](result = "Ok" => invoked = 1 /\ steps = <<>>)
    /\ [](spc \in {"remove", "save", "invoke"} => invoked = 0)
    /\ [](result \notin {"Ok", "running", "none"} => invoked = 0)
    /\ [][invoked' > invoked =>
             /\ spc = "invoke" /\ steps = <<>> /\ saved = Len(Chunks(walked))
             /\ invoked' = 1 /\ result' = "Ok"]_vars
\* C16 witness: a scan of two save steps has returned Ok with one call
InvokedAfterTwoSaves ==
    /\ result = "Ok" /\ saved = 2 /\ invoked = 1
\* a scan that walked no entry has returned Ok with one call
InvokedAfterEmptyScan ==
    /\ result = "Ok" /\ walked = <<>> /\ saved = 0 /\ invoked = 1

\* C17: a load that fails at the registration of a location with the
\* location-watch manager returns LocationWatcher, has not asked for the
\* library's jobs to be resumed and leaves the library out of the registry:
\* create_with_uuid returns the error with the registry as it was, and
\* initialize fails and leaves no registry.
LocationFailureLeavesNoLibrary ==
    /\ [][\A p \in Procs :
            (pc[p] = "c_load" /\ pc'[p] = "idle"
                /\ last'.status = "LocationWatcher")
            => /\ last'.op = "create"
               /\ args[p].id \notin resumed'
               /\ libraries' = libraries]_vars
    /\ [](last.op = "initialize" /\ last.detail = <<"LocationWatcher">>
            => /\ last.status # "Ok"
               /\ mgr = "failed"
               /\ libraries = <<>>
               /\ last.uuid \notin resumed)
\* C17 witness: create_with_uuid has returned LocationWatcher
CreateFailedAtLocations ==
    /\ last.op = "create" /\ last.status = "LocationWatcher"
\* initialize has failed at the locations of the second library it loaded
InitializeFailedAtLocations ==
    /\ last.op = "initialize" /\ last.detail = <<"LocationWatcher">>
    /\ resumed # {}

\* C19: create_with_uuid does not hold the registry lock while it saves the
\* config, loads the library and seeds it: a caller inside a create never
\* holds the lock, and while one caller's create is loading or seeding,
\* list and get_library of another caller can complete at once.
CreateLocksOnlyToAppend ==
    /\ \A p \in Procs :
          pc[p] \in {"c_load", "c_seed", "c_push"} => lockWriter # p
    /\ \A p, q \in Procs :
          (mgr = "up" /\ pc[p] \in {"c_load", "c_seed"} /\ pc[q] = "idle")
          => /\ ENABLED List(q)
             /\ \A id \in Ids : ENABLED GetLibrary(q, id)
\* C19 witness: list has returned to one caller while the create of the
\* other is at its load
ListedDuringLoad ==
    \E p \in Procs :
        /\ pc[p] = "c_load"
        /\ last.op = "list" /\ last.proc # p /\ last.status = "Ok"

\* C20: the node record a load upserts belongs to the loading node alone:
\* two nodes with different global ids that have loaded the same library
\* hold different local ids, and the library's database holds one record
\* for each node that has loaded it.
NodeRecordPerNode ==
    /\ \A id \in Ids : \A n1, n2 \in NodeIds :
          (n1 # n2 /\ localOf[id][n1] # 0 /\ localOf[id][n2] # 0)
          => localOf[id][n1] # localOf[id][n2]
    /\ \A id \in Ids :
          Cardinality(nodeTable[id]) =
              Cardinality({n \in NodeIds : localOf[id][n] # 0})

\* C21: a load whose resume_jobs fails returns Ok as one whose resume_jobs
\* succeeds: create_with_uuid goes on to seed and register the library, an
\* initialize that returns Ok has registered it, and an initialize that
\* fails has not failed at that library.
ResumeFailureNotFatal ==
    /\ [][\A p \in Procs :
            (pc[p] = "c_load" /\ pc'[p] # "c_load"
                /\ args[p].id \in resumeFailed')
            => pc'[p] = "c_seed" /\ last' = NoReturn
               /\ DbPath(args[p].id) \in dir']_vars
    /\ [](last.op = "initialize" /\ last.status = "Ok"
            => resumeFailed \subseteq RegisteredIds(libraries))
    /\ [](last.op = "initialize" /\ last.status # "Ok"
            => last.uuid \notin resumeFailed)
\* C21 witness: initialize has returned Ok and registered a library whose
\* resume_jobs failed
InitializedDespiteResumeFailure ==
    /\ mgr = "up" /\ last.op = "initialize" /\ last.status = "Ok"
    /\ resumeFailed # {} /\ resumeFailed \subseteq RegisteredIds(libraries)
\* a create is past its load although the load's resume_jobs failed
CreateLoadedDespiteResumeFailure ==
    \E p \in Procs : pc[p] = "c_seed" /\ args[p].id \in resumeFailed

\* C22: a scan whose walk returned per-entry errors has not failed at the
\* walk; when it returns Ok it has done the removal, run a save step for
\* every batch of the discovered entries and invoked the orphan remover
\* once; and no failing entry is among the entries to insert or the
\* records to remove.
WalkErrorsDoNotAbort ==
    /\ errors # {} =>
          result \in {"running", "Ok", "DatabaseError", "Interrupted"}
    /\ (errors # {} /\ result = "Ok") =>
          /\ removal = "done"
          /\ Len(executed) * BATCH_SIZE >= Len(walked)
          /\ saved = Len(executed)
          /\ invoked = 1
    /\ \A n \in errors :
          /\ \A i \in 1..Len(walked) : walked[i][1] # n
          /\ \A r \in to_remove : r[1] # n
\* C22 witness: a scan with two walk errors has saved its discovered
\* entries and returned Ok
ScanWithWalkErrorsSucceeded ==
    /\ Cardinality(errors) = 2 /\ result = "Ok" /\ saved > 0 /\ invoked = 1
\* a scan with one walk error has returned Ok
ScanWithOneWalkErrorSucceeded ==
    /\ Cardinality(errors) = 1 /\ result = "Ok" /\ invoked = 1

\* C23: a list() that runs after an operation has emitted "library.list"
\* returns the registry as the operation leaves it. A caller at c_push has
\* emitted the signal of its create, so a list returned meanwhile holds the
\* created library; a delete that has emitted the signal has unregistered
\* the library in the same step; an edit emits it with the new config in
\* the registry.
ListAfterSignalIsCurrent ==
    /\ \A p \in Procs :
          (pc[p] = "c_push" /\ last.op = "list" /\ last.proc # p)
          => \E i \in 1..Len(last.list) :
                 last.list[i] = Wrapped(args[p].id, args[p].config)
    /\ (last.op = "delete" /\ signal = LibraryList)
          => last.uuid \notin RegisteredIds(libraries)
    /\ \A p \in Procs :
          (pc[p] = "e_read" /\ signal = LibraryList)
          => (args[p].id \in RegisteredIds(libraries)
                /\ libraries[FindIndex(libraries, args[p].id)].config
                       = cfgData[args[p].id])

\* C24: whenever the manager is up and no caller is inside an operation,
\* the config every registered library carries in memory is the one its
\* config file holds.
MemoryConfigMatchesFile ==
    (mgr = "up" /\ \A p \in Procs : pc[p] = "idle")
    => \A i \in 1..Len(libraries) :
           libraries[i].config = cfgData[libraries[i].id]

\* C25: a create_with_uuid that returned an error has not registered its
\* id, and a later initialize over the same directory does not register it
\* either: no id whose latest create failed is in the registry.
FailedCreateLeavesNothing ==
    \A id \in Ids : attempt[id] = "failed" => id \notin RegisteredIds(libraries)

====
